---------------------------- MODULE Spec2Model ----------------------------
(***************************************************************************)
(* OBLISK: the symbolic planner (src/core/symbolic_planner.py).            *)
(*                                                                         *)
(* The planner keeps two dictionaries: `actions` (action_id -> Action, a   *)
(* Python dict, so iteration follows insertion order) and `plans`          *)
(* (plan_id -> plan record).  create_plan runs a greedy forward search     *)
(* (_forward_search) and stores the plan it finds.  The search is modelled *)
(* one loop iteration per step, so that termination, the loop bound and    *)
(* interleavings with other calls are visible.                             *)
(*                                                                         *)
(* Specifications:                                                         *)
(*   Spec      one caller using the planner, at most MaxOps calls          *)
(*   FairSpec  a caller that registers its actions and plans once, with    *)
(*             the fairness of a synchronous call                          *)
(*   SpecDet   the same create_plan call made twice on one registry        *)
(*   SpecAlias Spec with a caller that changes the objects it passed       *)
(*   SpecPolicy a caller that asks for the LOWEST_COST selection policy    *)
(*   SpecConc  register_action called while a search is running            *)
(*   SpecAgents the agent manager and the agents it manages                *)
(*   SpecGovernance the governance engine and its audit log                *)
(*                                                                         *)
(* Facts, effects and identifiers are strings as in the source.  Costs are *)
(* floats in the source; the model uses the integers among them.           *)
(* Action.parameters is never read by the planner and is left out.         *)
(***************************************************************************)
EXTENDS Integers, Sequences, FiniteSets, TLC

VARIABLES
    actions,    \* self.actions: the registry, in dict insertion order
    plans,      \* self.plans: plan_id -> plan record
    call,       \* per calling thread: the create_plan call in progress (its
                \* arguments, the locals of _forward_search, and the
                \* registry the call started from)
    last,       \* the last completed operation and what it returned
    nops,       \* number of calls made to the planner so far
    agents,     \* AgentManager.agents: agent_id -> Agent (its status)
    max_agents, \* AgentManager.max_agents
    agent_last, \* the last call to the manager or to an agent, its result
    policies,   \* GovernanceEngine.policies, in dict insertion order
    audit_log,  \* GovernanceEngine.audit_log
    gov_last    \* the last call to the governance engine and its result

\* the state of the agent manager and of the governance engine, which no
\* operation of the planner reads or writes
managerVars == <<agents, max_agents, agent_last>>
governanceVars == <<policies, audit_log, gov_last>>
plannerVars == <<actions, plans, call, last, nops>>

vars == <<actions, plans, call, last, nops,
          agents, max_agents, agent_last, policies, audit_log, gov_last>>

-----------------------------------------------------------------------------
(* Bounds of the model *)

\* registry entries (distinct action identifiers)
MaxActions == 2
\* calls to the planner in one behaviour
MaxOps == 3
\* largest explicit constraints["max_depth"]
MaxDepthArg == 2

\* constraints.get("max_depth", 10)
DefaultMaxDepth == 10

-----------------------------------------------------------------------------
(* Strings of the domain *)

Facts == {"hand_empty", "block_on_table", "holding_block"}

\* "NOT_" + fact
Neg == [f \in Facts |-> CASE f = "hand_empty" -> "NOT_hand_empty"
                          [] f = "block_on_table" -> "NOT_block_on_table"
                          [] f = "holding_block" -> "NOT_holding_block"]

\* effect.startswith("NOT_")
StartsWithNOT(effect) == \E f \in Facts : Neg[f] = effect

\* effect[4:]
StripNOT(effect) == CHOOSE f \in Facts : Neg[f] = effect

\* Optional values: None is the empty tuple, a present value x is <<x>>
None == <<>>
Some(x) == <<x>>

PENDING == "pending"
IN_PROGRESS == "in_progress"
COMPLETED == "completed"
FAILED == "failed"
PlanStatus == {PENDING, IN_PROGRESS, COMPLETED, FAILED}

ActionIdPool == <<"act_1", "act_2", "act_3", "act_4">>
ActionIds == {ActionIdPool[i] : i \in 1..MaxActions}

\* the values uuid4().hex[:12] can take (two of the 16^12)
PlanIds == {"plan-0a", "plan-0b"}

Threads == {1, 2}

-----------------------------------------------------------------------------
(* Action definitions the callers register *)

Action(n, pre, eff, c) ==
    [name |-> n, preconditions |-> pre, effects |-> eff, cost |-> c]

pickup == Action("pickup", {"hand_empty", "block_on_table"},
                 <<"holding_block", "NOT_hand_empty">>, 1)
putdown == Action("putdown", {"holding_block"},
                  <<"NOT_holding_block", "hand_empty">>, 1)
open_hand == Action("open_hand", {}, <<"hand_empty">>, 1)
fumble == Action("fumble", {"block_on_table"},
                 <<"holding_block", "NOT_holding_block">>, 1)
cheat == Action("cheat", {"hand_empty"}, <<"holding_block">>, -1)

ActionPool == {pickup, putdown, open_hand, fumble, cheat}

GoalPool == {{}, {"holding_block"}, {"holding_block", "hand_empty"}}
StatePool == {{}, {"block_on_table"}, {"hand_empty", "block_on_table"},
              {"holding_block"}}

\* the constraints argument: None, {} or {"max_depth": n}; a dict is the
\* set of its <<key, value>> items
EmptyDict == {}
ConstraintsPool ==
    {None} \cup {Some({<<"max_depth", n>>}) : n \in 0..MaxDepthArg}

-----------------------------------------------------------------------------
(* Registry: a dict in insertion order *)

Keys(d) == {d[i].id : i \in DOMAIN d}
IndexOf(d, k) == CHOOSE i \in DOMAIN d : d[i].id = k

\* a mapping that moves a key it overwrites to the end
DictSetMoveToEnd(d, k, v) ==
    Append(SelectSeq(d, LAMBDA e : e.id # k), [id |-> k, action |-> v])

\* d[k] = v: a new key goes last, an existing key keeps its place
DictSet(d, k, v) ==
    IF k \in Keys(d)
    THEN [d EXCEPT ![IndexOf(d, k)] = [id |-> k, action |-> v]]
    ELSE Append(d, [id |-> k, action |-> v])

\* list(d.values())
Values(d) == [i \in DOMAIN d |-> d[i].action]

-----------------------------------------------------------------------------
(* Pure helpers of the planner *)

\* _check_goal: all(condition in state for condition in goal.conditions)
CheckGoal(conditions, state) == \A c \in conditions : c \in state

\* a filter that asks for one precondition to hold rather than all
RECURSIVE ApplicableAny(_, _)
ApplicableAny(vals, state) ==
    IF vals = <<>> THEN <<>>
    ELSE LET rest == ApplicableAny(Tail(vals), state)
             a == Head(vals)
         IN IF \E p \in a.preconditions : p \in state
            THEN <<a>> \o rest
            ELSE rest

\* _get_applicable_actions: the registered actions, in order, whose
\* preconditions all hold
RECURSIVE Applicable(_, _)
Applicable(vals, state) ==
    IF vals = <<>> THEN <<>>
    ELSE LET rest == Applicable(Tail(vals), state)
             a == Head(vals)
         IN IF \A p \in a.preconditions : p \in state
            THEN <<a>> \o rest
            ELSE rest

\* a filter that lets every registered action through
GetApplicableUnfiltered(state) == Values(actions)

\* a filter over a built-in catalogue rather than the registry
GetApplicableDefaults(state) ==
    Applicable(<<pickup, putdown, open_hand>>, state)

GetApplicableActions(state) == Applicable(Values(actions), state)

\* one effect of _apply_action
ApplyEffect(effect, state) ==
    IF StartsWithNOT(effect)
    THEN state \ {StripNOT(effect)}
    ELSE state \cup {effect}

\* effects as two sets: the state minus every negative effect, plus every
\* positive one
ApplyEffectsSetwise(effects, state) ==
    (state \ {StripNOT(effects[j]) :
                 j \in {k \in DOMAIN effects : StartsWithNOT(effects[k])}})
        \cup {effects[j] :
                 j \in {k \in DOMAIN effects : ~StartsWithNOT(effects[k])}}

\* _apply_action: the effects in list order on a copy of the state
RECURSIVE ApplyEffects(_, _)
ApplyEffects(effects, state) ==
    IF effects = <<>> THEN state
    ELSE ApplyEffects(Tail(effects), ApplyEffect(Head(effects), state))

\* one call of _apply_action: new_state = state.copy() takes the effects,
\* the set passed in keeps its facts
ApplyActionCall(action, state) ==
    [state |-> state,
     new_state |-> ApplyEffects(action.effects, state)]

ApplyAction(action, state) == ApplyActionCall(action, state).new_state

\* a choice that follows the iteration order of an unordered container
SelectAny(applicable) == {applicable[j] : j \in DOMAIN applicable}

\* a choice of the action registered last among the applicable ones
SelectLast(applicable) == {applicable[Len(applicable)]}

\* applicable[0]
SelectAction(applicable) == {applicable[1]}

\* a loop whose counter does not advance
NextIndexStuck(i) == i

\* "for _ in range(max_depth)": the next value of the loop counter
NextIndex(i) == i + 1

\* constraints or {}
OrEmpty(constraints) ==
    IF constraints = None \/ constraints[1] = EmptyDict
    THEN EmptyDict
    ELSE constraints[1]

\* a search that ignores the caller's max_depth
GetMaxDepthIgnored(constraints) == DefaultMaxDepth

\* constraints.get("max_depth", 10)
GetMaxDepth(constraints) ==
    IF \E item \in constraints : item[1] = "max_depth"
    THEN (CHOOSE item \in constraints : item[1] = "max_depth")[2]
    ELSE DefaultMaxDepth

-----------------------------------------------------------------------------
(* State *)

Idle == [pc |-> "idle"]

\* last: operation, its identifier argument, what it returned (as Python
\* prints it, or the plan_id), and the plan status it found (execute_plan)
NoOp == [op |-> "__init__", arg |-> "", ret |-> "None", pre |-> ""]

\* AgentManager.__init__(max_agents=100)
DefaultMaxAgents == 100
NoAgentOp == [op |-> "__init__", arg |-> "", ret |-> "None", pre |-> ""]
\* gov_last: operation, its identifier argument, what it returned or
\* raised, and for get_audit_log the limit asked for and the list returned
NoGovOp == [op |-> "__init__", arg |-> "", ret |-> "None", limit |-> 0,
            entries |-> <<>>]

Init ==
    /\ actions = <<>>
    /\ plans = <<>>
    /\ call = [t \in Threads |-> Idle]
    /\ last = NoOp
    /\ nops = 0
    /\ agents = <<>>
    /\ max_agents = DefaultMaxAgents
    /\ agent_last = NoAgentOp
    /\ policies = <<>>
    /\ audit_log = <<>>
    /\ gov_last = NoGovOp

\* no call is in progress: a single-threaded caller
Quiet == \A t \in Threads : call[t].pc = "idle"

-----------------------------------------------------------------------------
(* register_action *)

RegisterAction(action_id, action) ==
    /\ action_id \in Keys(actions) \/ Len(actions) < MaxActions
    /\ actions' = DictSet(actions, action_id, action)
    /\ last' = [op |-> "register_action", arg |-> action_id, ret |-> "True",
                pre |-> ""]
    /\ nops' = nops + 1
    /\ UNCHANGED <<plans, call, managerVars, governanceVars>>

-----------------------------------------------------------------------------
(* create_plan *)

\* The objects a caller passes: ref tells one object from another with the
\* same content (the plan record keeps the objects, not copies of them)
GoalObject(ref, conditions) == [ref |-> ref, conditions |-> conditions]
StateObject(ref, facts) == [ref |-> ref, facts |-> facts]

\* state.copy()
Copy(state) == state.facts

\* The caller builds a Goal and a state set and calls create_plan; the call
\* draws its plan_id and enters _forward_search up to the head of the loop.
CreatePlanBegin(t, conditions, facts, constraints) ==
    /\ call[t].pc = "idle"
    /\ \E id \in PlanIds :
         call' = [call EXCEPT ![t] =
             [pc |-> "loop",
              plan_id |-> id,
              goal |-> GoalObject(nops + 1, conditions),
              initial_state |-> StateObject(nops + 1, facts),
              constraints |-> constraints,
              registry |-> actions,
              consulted |-> {},
              plan |-> <<>>,
              current_state |-> Copy(StateObject(nops + 1, facts)),
              max_depth |-> GetMaxDepth(OrEmpty(constraints)),
              i |-> 0,
              action_sequence |-> None]]
    /\ nops' = nops + 1
    /\ UNCHANGED <<actions, plans, last, managerVars, governanceVars>>

\* One iteration of "for _ in range(max_depth)"; an iteration that gets as
\* far as _get_applicable_actions reads self.actions as it is then, which
\* the frame notes in consulted
SearchIter(t) ==
    LET c == call[t]
        applicable == GetApplicableActions(c.current_state)
    IN
    /\ c.pc = "loop"
    /\ c.i < c.max_depth
    /\ \/ /\ CheckGoal(c.goal.conditions, c.current_state)
          /\ call' = [call EXCEPT ![t].pc = "searched",
                                  ![t].action_sequence = Some(c.plan)]
       \/ /\ ~CheckGoal(c.goal.conditions, c.current_state)
          /\ applicable = <<>>
          /\ call' = [call EXCEPT
                   ![t].pc = "after_loop",
                   ![t].consulted = c.consulted \cup {actions}]
       \/ /\ ~CheckGoal(c.goal.conditions, c.current_state)
          /\ applicable # <<>>
          /\ \E action \in SelectAction(applicable) :
               call' = [call EXCEPT
                   ![t].plan = Append(c.plan, action),
                   ![t].consulted = c.consulted \cup {actions},
                   ![t].current_state = ApplyAction(action, c.current_state),
                   ![t].i = NextIndex(c.i)]
    /\ UNCHANGED <<actions, plans, last, nops, managerVars, governanceVars>>

\* a search that returns the path it followed without the last goal check
AfterLoopNoCheck(c) == Some(c.plan)

\* a search that gives up as soon as the loop is over
AfterLoopGiveUp(c) == None

\* what _forward_search returns after the loop
AfterLoopResult(c) ==
    IF CheckGoal(c.goal.conditions, c.current_state)
    THEN Some(c.plan)
    ELSE None

\* The loop is over (range exhausted or break): the final goal check
SearchAfterLoop(t) ==
    LET c == call[t] IN
    /\ \/ c.pc = "after_loop"
       \/ c.pc = "loop" /\ c.i >= c.max_depth
    /\ call' = [call EXCEPT ![t].pc = "searched",
                            ![t].action_sequence = AfterLoopResult(c)]
    /\ UNCHANGED <<actions, plans, last, nops, managerVars, governanceVars>>

\* the record create_plan stores
NewPlan(c) ==
    [plan_id |-> c.plan_id,
     goal |-> c.goal,
     initial_state |-> c.initial_state,
     actions |-> c.action_sequence[1],
     status |-> PENDING,
     current_step |-> 0]

\* self.plans[plan_id] = plan
StorePlan(store, id, plan) ==
    [p \in DOMAIN store \cup {id} |-> IF p = id THEN plan ELSE store[p]]

\* create_plan storing the record before it looks at the search's result
CreatePlanEndStoreFirst(t) ==
    LET c == call[t]
        failed == c.action_sequence = None
        plan == [plan_id |-> c.plan_id,
                 goal |-> c.goal,
                 initial_state |-> c.initial_state,
                 actions |-> IF failed THEN <<>> ELSE c.action_sequence[1],
                 status |-> PENDING,
                 current_step |-> 0]
    IN
    /\ c.pc = "searched"
    /\ plans' = StorePlan(plans, c.plan_id, plan)
    /\ last' = [op |-> "create_plan", arg |-> c.plan_id,
                ret |-> IF failed THEN "None" ELSE c.plan_id, pre |-> ""]
    /\ call' = [call EXCEPT ![t] = Idle]
    /\ UNCHANGED <<actions, nops, managerVars, governanceVars>>

\* Back in create_plan with the search's result
CreatePlanEnd(t) ==
    LET c == call[t] IN
    /\ c.pc = "searched"
    /\ IF c.action_sequence = None
       THEN /\ plans' = plans
            /\ last' = [op |-> "create_plan", arg |-> c.plan_id,
                        ret |-> "None", pre |-> ""]
       ELSE /\ plans' = StorePlan(plans, c.plan_id, NewPlan(c))
            /\ last' = [op |-> "create_plan", arg |-> c.plan_id,
                        ret |-> c.plan_id, pre |-> ""]
    /\ call' = [call EXCEPT ![t] = Idle]
    /\ UNCHANGED <<actions, nops, managerVars, governanceVars>>

-----------------------------------------------------------------------------
(* execute_plan *)

ExecutePlan(plan_id) ==
    /\ IF plan_id \notin DOMAIN plans
       THEN /\ plans' = plans
            /\ last' = [op |-> "execute_plan", arg |-> plan_id,
                        ret |-> "False", pre |-> ""]
       ELSE /\ plans' = [plans EXCEPT ![plan_id].status = IN_PROGRESS]
            /\ last' = [op |-> "execute_plan", arg |-> plan_id,
                        ret |-> "True", pre |-> plans[plan_id].status]
    /\ nops' = nops + 1
    /\ UNCHANGED <<actions, call, managerVars, governanceVars>>

-----------------------------------------------------------------------------
(* The caller's step-outcome report (spec, sections 3 and 4.4): the        *)
(* execution environment advances current_step of a plan in progress and   *)
(* ends it COMPLETED or FAILED, writing into the stored record.            *)

ReportStepOutcome(plan_id, success) ==
    /\ plan_id \in DOMAIN plans
    /\ plans[plan_id].status = IN_PROGRESS
    /\ LET p == plans[plan_id]
           step == IF p.current_step < Len(p.actions)
                   THEN p.current_step + 1
                   ELSE p.current_step
       IN plans' = [plans EXCEPT ![plan_id] =
              IF ~success
              THEN [p EXCEPT !.status = FAILED]
              ELSE [p EXCEPT !.current_step = step,
                             !.status = IF step >= Len(p.actions)
                                        THEN COMPLETED
                                        ELSE IN_PROGRESS]]
    /\ UNCHANGED <<actions, call, last, nops, managerVars, governanceVars>>

-----------------------------------------------------------------------------
(* Sequential use: one caller, one operation at a time *)

\* the caller may make another call
Ready == Quiet /\ nops < MaxOps

Next ==
    \/ /\ Ready
       /\ \E id \in ActionIds, a \in ActionPool : RegisterAction(id, a)
    \/ /\ Ready
       /\ \E g \in GoalPool, s \in StatePool, k \in ConstraintsPool :
            CreatePlanBegin(1, g, s, k)
    \/ SearchIter(1)
    \/ SearchAfterLoop(1)
    \/ CreatePlanEnd(1)
    \/ /\ Ready
       /\ \E p \in PlanIds : ExecutePlan(p)
    \/ /\ Quiet
       /\ \E p \in PlanIds, ok \in BOOLEAN : ReportStepOutcome(p, ok)

Spec == Init /\ [][Next]_vars

\* create_plan is synchronous: a call that has started keeps running
Fairness ==
    /\ WF_vars(SearchIter(1))
    /\ WF_vars(SearchAfterLoop(1))
    /\ WF_vars(CreatePlanEnd(1))

\* a caller that registers its actions and then plans once
NextSearch ==
    \/ /\ Ready
       /\ last.op # "create_plan"
       /\ \E id \in ActionIds, a \in ActionPool : RegisterAction(id, a)
    \/ /\ Quiet
       /\ last.op # "create_plan"
       /\ \E g \in GoalPool, s \in StatePool, k \in ConstraintsPool :
            CreatePlanBegin(1, g, s, k)
    \/ SearchIter(1)
    \/ SearchAfterLoop(1)
    \/ CreatePlanEnd(1)

FairSpec == Init /\ [][NextSearch]_vars /\ Fairness

-----------------------------------------------------------------------------
(* get_plan, get_plan_status *)

\* self.plans.get(plan_id)
GetPlan(plan_id) ==
    IF plan_id \in DOMAIN plans THEN Some(plans[plan_id]) ELSE None

\* plan["status"] if plan else None
GetPlanStatus(plan_id) ==
    IF GetPlan(plan_id) # None THEN Some(GetPlan(plan_id)[1].status) ELSE None

-----------------------------------------------------------------------------
(* A caller that goes on using the objects it passed to create_plan: it    *)
(* assigns goal.conditions of a Goal, or adds a fact to a state set.  The  *)
(* plan record holds these very objects (plan["goal"] = goal,              *)
(* plan["initial_state"] = initial_state), so every record that holds the  *)
(* object shows the change.                                                *)

CallerMutatesGoal(ref, conditions) ==
    /\ \E p \in DOMAIN plans : plans[p].goal.ref = ref
    /\ plans' = [p \in DOMAIN plans |->
                   IF plans[p].goal.ref = ref
                   THEN [plans[p] EXCEPT !.goal.conditions = conditions]
                   ELSE plans[p]]
    /\ UNCHANGED <<actions, call, last, nops, managerVars, governanceVars>>

CallerMutatesState(ref, fact) ==
    /\ \E p \in DOMAIN plans : plans[p].initial_state.ref = ref
    /\ plans' = [p \in DOMAIN plans |->
                   IF plans[p].initial_state.ref = ref
                   THEN [plans[p] EXCEPT
                            !.initial_state.facts = @ \cup {fact}]
                   ELSE plans[p]]
    /\ UNCHANGED <<actions, call, last, nops, managerVars, governanceVars>>

NextAlias ==
    \/ Next
    \/ /\ Quiet
       /\ \E r \in 1..MaxOps, g \in GoalPool : CallerMutatesGoal(r, g)
    \/ /\ Quiet
       /\ \E r \in 1..MaxOps, f \in Facts : CallerMutatesState(r, f)

SpecAlias == Init /\ [][NextAlias]_vars

-----------------------------------------------------------------------------
(* Two calls with the same arguments on the same registry: the registry is *)
(* built first, then thread 1 calls create_plan and thread 2 repeats the   *)
(* call while the first has not returned.                                  *)

SameCall(t, u) ==
    /\ call[t].pc # "idle"
    /\ call[u].pc # "idle"
    /\ call[t].goal.conditions = call[u].goal.conditions
    /\ call[t].initial_state.facts = call[u].initial_state.facts
    /\ call[t].constraints = call[u].constraints
    /\ call[t].registry = call[u].registry

NextDet ==
    \/ /\ Ready
       /\ last.op # "create_plan"
       /\ \E id \in ActionIds, a \in ActionPool : RegisterAction(id, a)
    \/ /\ Quiet
       /\ last.op # "create_plan"
       /\ \E g \in GoalPool, s \in StatePool, k \in ConstraintsPool :
            CreatePlanBegin(1, g, s, k)
    \/ /\ call[1].pc = "searched"
       /\ last.op # "create_plan"
       /\ CreatePlanBegin(2, call[1].goal.conditions,
                           call[1].initial_state.facts, call[1].constraints)
    \/ \E t \in Threads : SearchIter(t)
    \/ \E t \in Threads : SearchAfterLoop(t)
    \/ /\ call[1].pc = "searched"
       /\ call[2].pc = "searched"
       /\ CreatePlanEnd(2)
    \/ /\ call[2].pc = "idle"
       /\ last.op = "create_plan"
       /\ CreatePlanEnd(1)

SpecDet == Init /\ [][NextDet]_vars

-----------------------------------------------------------------------------
(* A caller that asks for the LOWEST_COST selection policy (spec 4.3) in   *)
(* the constraints it passes, on a registry of two ways to pick the block  *)
(* up.                                                                     *)

grab == Action("grab", {"hand_empty", "block_on_table"},
               <<"holding_block">>, 5)

PolicyActionPool == {pickup, grab}

LowestCost == Some({<<"selection_policy", "LOWEST_COST">>})

PolicyConstraintsPool == {None, LowestCost}

NextPolicy ==
    \/ /\ Ready
       /\ \E id \in ActionIds, a \in PolicyActionPool : RegisterAction(id, a)
    \/ /\ Ready
       /\ \E g \in GoalPool, s \in StatePool, k \in PolicyConstraintsPool :
            CreatePlanBegin(1, g, s, k)
    \/ SearchIter(1)
    \/ SearchAfterLoop(1)
    \/ CreatePlanEnd(1)

SpecPolicy == Init /\ [][NextPolicy]_vars

-----------------------------------------------------------------------------
(* register_action called by another thread while a search is running: the *)
(* planner holds no lock, so a registration can fall between any two       *)
(* iterations of the search loop.                                          *)

NextConc ==
    \/ /\ nops < MaxOps
       /\ \E id \in ActionIds, a \in ActionPool : RegisterAction(id, a)
    \/ /\ Ready
       /\ \E g \in GoalPool, s \in StatePool, k \in ConstraintsPool :
            CreatePlanBegin(1, g, s, k)
    \/ SearchIter(1)
    \/ SearchAfterLoop(1)
    \/ CreatePlanEnd(1)

SpecConc == Init /\ [][NextConc]_vars

-----------------------------------------------------------------------------
(* Agents and the agent manager (src/agents/agent.py, agent_manager.py).   *)
(* An Agent is modelled by its status; the manager keeps the agents it     *)
(* created under their agent_id ("agent-" and 12 hex digits of a uuid4,    *)
(* a draw from AgentIds here).                                             *)

\* the largest max_agents a manager is constructed with
MaxAgentsArg == 2

IDLE == "idle"
RUNNING == "running"
PAUSED == "paused"
STOPPED == "stopped"
ERROR == "error"
AgentStatus == {IDLE, RUNNING, PAUSED, STOPPED, ERROR}

AgentIds == {"agent-0a", "agent-0b", "agent-0c"}

\* Agent.__init__: self.status = AgentStatus.IDLE
NewAgent == [status |-> IDLE]

\* an agent that can only be started once
StartRefusedUnlessIdle(status) == status # IDLE

\* start: if self.status == AgentStatus.RUNNING
StartRefused(status) == status = RUNNING

\* stop: if self.status == AgentStatus.STOPPED
StopRefused(status) == status = STOPPED

\* pause: if self.status != AgentStatus.RUNNING
PauseRefused(status) == status # RUNNING

\* resume: if self.status != AgentStatus.PAUSED
ResumeRefused(status) == status # PAUSED

\* one call of a method of the agent managed under agent_id: refused, it
\* returns False and leaves the status; otherwise it sets the status
AgentMethod(agent_id, op, refused, status) ==
    /\ agent_id \in DOMAIN agents
    /\ agents' = IF refused THEN agents
                 ELSE [agents EXCEPT ![agent_id].status = status]
    /\ agent_last' = [op |-> op, arg |-> agent_id,
                      ret |-> IF refused THEN "False" ELSE "True",
                      pre |-> agents[agent_id].status]
    /\ UNCHANGED <<max_agents, plannerVars, governanceVars>>

AgentStart(agent_id) ==
    /\ agent_id \in DOMAIN agents
    /\ AgentMethod(agent_id, "start",
                   StartRefused(agents[agent_id].status), RUNNING)

AgentStop(agent_id) ==
    /\ agent_id \in DOMAIN agents
    /\ AgentMethod(agent_id, "stop",
                   StopRefused(agents[agent_id].status), STOPPED)

AgentPause(agent_id) ==
    /\ agent_id \in DOMAIN agents
    /\ AgentMethod(agent_id, "pause",
                   PauseRefused(agents[agent_id].status), PAUSED)

AgentResume(agent_id) ==
    /\ agent_id \in DOMAIN agents
    /\ AgentMethod(agent_id, "resume",
                   ResumeRefused(agents[agent_id].status), RUNNING)

\* a limit test that lets one agent too many in
OverLimit(n, limit) == n > limit

\* len(self.agents) >= self.max_agents
AtLimit(n, limit) == n >= limit

\* create_agent: RuntimeError at the limit, otherwise a new Agent stored
\* under the identifier it drew
CreateAgent ==
    /\ IF AtLimit(Cardinality(DOMAIN agents), max_agents)
       THEN /\ agents' = agents
            /\ agent_last' = [op |-> "create_agent", arg |-> "",
                              ret |-> "RuntimeError", pre |-> ""]
       ELSE \E id \in AgentIds :
            /\ agents' = [a \in DOMAIN agents \cup {id} |->
                             IF a = id THEN NewAgent ELSE agents[a]]
            /\ agent_last' = [op |-> "create_agent", arg |-> id,
                              ret |-> id, pre |-> ""]
    /\ UNCHANGED <<max_agents, plannerVars, governanceVars>>

\* remove_agent: a running agent is stopped, then the entry is deleted
RemoveAgent(agent_id) ==
    /\ IF agent_id \in DOMAIN agents
       THEN /\ agents' = [a \in DOMAIN agents \ {agent_id} |-> agents[a]]
            /\ agent_last' = [op |-> "remove_agent", arg |-> agent_id,
                              ret |-> "True",
                              pre |-> agents[agent_id].status]
       ELSE /\ agents' = agents
            /\ agent_last' = [op |-> "remove_agent", arg |-> agent_id,
                              ret |-> "False", pre |-> ""]
    /\ UNCHANGED <<max_agents, plannerVars, governanceVars>>

\* AgentManager(max_agents=n)
InitAgents ==
    /\ actions = <<>>
    /\ plans = <<>>
    /\ call = [t \in Threads |-> Idle]
    /\ last = NoOp
    /\ nops = 0
    /\ agents = <<>>
    /\ max_agents \in 0..MaxAgentsArg
    /\ agent_last = NoAgentOp
    /\ policies = <<>>
    /\ audit_log = <<>>
    /\ gov_last = NoGovOp

NextAgents ==
    \/ CreateAgent
    \/ \E id \in AgentIds : RemoveAgent(id)
    \/ \E id \in AgentIds : AgentStart(id)
    \/ \E id \in AgentIds : AgentStop(id)
    \/ \E id \in AgentIds : AgentPause(id)
    \/ \E id \in AgentIds : AgentResume(id)

SpecAgents == InitAgents /\ [][NextAgents]_vars

-----------------------------------------------------------------------------
(* The governance engine (src/core/governance_engine.py).  A policy is its *)
(* definition (the optional "action_types" and the list under "rules");    *)
(* every stored policy is enabled, no operation clears the flag.  An       *)
(* action is the set of its <<key, value>> items.  Timestamps and the      *)
(* context argument are written into the log and never read; they are      *)
(* left out.                                                               *)

\* audit entries a run may write, and the largest limit asked for
MaxLog == 3
MaxLimit == 2

ALLOW == "allow"
DENY == "deny"
REQUIRES_REVIEW == "requires_review"
PolicyDecision == {ALLOW, DENY, REQUIRES_REVIEW}

GovPolicyIds == {"pol_1", "pol_2"}
GovAgentIds == {"agent-0a", "agent-0b"}
GovActions == {{<<"type", "read">>}, {<<"type", "delete">>}}

\* a rule: "name", conditions["agent_id"], conditions["action_properties"]
\* and "decision", each of which may be missing
Rule(name, agent_id, props, decision) ==
    [name |-> name, agent_id |-> agent_id, action_properties |-> props,
     decision |-> decision]

\* deletes are refused by a rule that leaves the decision to the default
no_delete ==
    [action_types |-> None,
     rules |-> <<Rule(Some("no_delete"), None, {<<"type", "delete">>},
                      None)>>]
\* reads of one agent go to review
review_reads ==
    [action_types |-> Some({"read"}),
     rules |-> <<Rule(None, Some("agent-0a"), {}, Some(REQUIRES_REVIEW))>>]
\* a rule whose decision is not a PolicyDecision value
block_agent ==
    [action_types |-> None,
     rules |-> <<Rule(Some("block_b"), Some("agent-0b"), {}, Some("block"))>>]

GovPolicyPool == {no_delete, review_reads, block_agent}

\* action.get(key)
ActionGet(action, key) ==
    IF \E kv \in action : kv[1] = key
    THEN Some((CHOOSE kv \in action : kv[1] = key)[2])
    ELSE None

\* _evaluate_rule
EvaluateRule(rule, agent_id, action) ==
    /\ rule.agent_id # None => agent_id = rule.agent_id[1]
    /\ \A kv \in rule.action_properties :
          ActionGet(action, kv[1]) = Some(kv[2])

\* the "action_types" test of evaluate_action: the policy is skipped when
\* the action has a type that is not among them
PolicyApplies(policy, action) ==
    \/ policy.action_types = None
    \/ ActionGet(action, "type") = None
    \/ ActionGet(action, "type")[1] \in policy.action_types[1]

\* the first rule of the list that matches
RECURSIVE FirstRule(_, _, _)
FirstRule(rules, agent_id, action) ==
    IF rules = <<>> THEN None
    ELSE IF EvaluateRule(Head(rules), agent_id, action)
         THEN Some(Head(rules))
         ELSE FirstRule(Tail(rules), agent_id, action)

\* the loops of evaluate_action: the first matching rule of the first
\* policy, in dict order, that applies and has one
RECURSIVE FirstMatch(_, _, _)
FirstMatch(ps, agent_id, action) ==
    IF ps = <<>> THEN None
    ELSE LET p == Head(ps)
             r == IF PolicyApplies(p.definition, action)
                  THEN FirstRule(p.definition.rules, agent_id, action)
                  ELSE None
         IN IF r # None
            THEN Some([policy_id |-> p.id, rule |-> r[1]])
            ELSE FirstMatch(Tail(ps), agent_id, action)

\* rule.get("decision", "deny") and rule.get("name", "unnamed")
RuleDecision(rule) == IF rule.decision = None THEN DENY ELSE rule.decision[1]
RuleName(rule) == IF rule.name = None THEN "unnamed" ELSE rule.name[1]

\* the data of an audit entry; a key that is not in the dict is None
AuditData(agent_id, action, policy_id, rule, decision) ==
    [agent_id |-> agent_id, action |-> action, policy_id |-> policy_id,
     rule |-> rule, decision |-> decision]

\* _audit: self.audit_log.append(audit_entry)
Audit(log, event_type, data) ==
    Append(log, [event_type |-> event_type, data |-> data])

\* add_policy: self.policies[policy_id] = {...}, then one audit entry
AddPolicy(policy_id, policy) ==
    /\ policies' =
         IF \E j \in DOMAIN policies : policies[j].id = policy_id
         THEN [j \in DOMAIN policies |->
                 IF policies[j].id = policy_id
                 THEN [id |-> policy_id, definition |-> policy,
                       enabled |-> TRUE]
                 ELSE policies[j]]
         ELSE Append(policies, [id |-> policy_id, definition |-> policy,
                                enabled |-> TRUE])
    /\ audit_log' = Audit(audit_log, "policy_added",
                          AuditData(None, None, Some(policy_id), None, None))
    /\ gov_last' = [op |-> "add_policy", arg |-> policy_id, ret |-> "True",
                    limit |-> 0, entries |-> <<>>]
    /\ UNCHANGED <<plannerVars, managerVars>>

\* remove_policy
RemovePolicy(policy_id) ==
    /\ IF \E j \in DOMAIN policies : policies[j].id = policy_id
       THEN /\ policies' = SelectSeq(policies, LAMBDA p : p.id # policy_id)
            /\ audit_log' = Audit(audit_log, "policy_removed",
                   AuditData(None, None, Some(policy_id), None, None))
            /\ gov_last' = [op |-> "remove_policy", arg |-> policy_id,
                            ret |-> "True", limit |-> 0, entries |-> <<>>]
       ELSE /\ UNCHANGED <<policies, audit_log>>
            /\ gov_last' = [op |-> "remove_policy", arg |-> policy_id,
                            ret |-> "False", limit |-> 0, entries |-> <<>>]
    /\ UNCHANGED <<plannerVars, managerVars>>

\* evaluate_action: the decision of the first matching rule, ALLOW when no
\* rule matches; PolicyDecision(value) raises ValueError for a value that
\* is not in the enumeration, before anything is audited
EvaluateAction(agent_id, action) ==
    LET m == FirstMatch(policies, agent_id, action) IN
    /\ IF m = None
       THEN /\ audit_log' = Audit(audit_log, "action_evaluated",
                   AuditData(Some(agent_id), Some(action), None, None,
                             Some(ALLOW)))
            /\ gov_last' = [op |-> "evaluate_action", arg |-> agent_id,
                            ret |-> ALLOW, limit |-> 0, entries |-> <<>>]
       ELSE IF RuleDecision(m[1].rule) \notin PolicyDecision
       THEN /\ audit_log' = audit_log
            /\ gov_last' = [op |-> "evaluate_action", arg |-> agent_id,
                            ret |-> "ValueError", limit |-> 0,
                            entries |-> <<>>]
       ELSE /\ audit_log' = Audit(audit_log, "action_evaluated",
                   AuditData(Some(agent_id), Some(action),
                             Some(m[1].policy_id),
                             Some(RuleName(m[1].rule)),
                             Some(RuleDecision(m[1].rule))))
            /\ gov_last' = [op |-> "evaluate_action", arg |-> agent_id,
                            ret |-> RuleDecision(m[1].rule), limit |-> 0,
                            entries |-> <<>>]
    /\ UNCHANGED <<policies, plannerVars, managerVars>>

\* seq[start:] of Python, start of either sign
SliceFrom(seq, start) ==
    LET n == Len(seq)
        from == IF start < 0
                THEN (IF n + start < 0 THEN 0 ELSE n + start)
                ELSE (IF start > n THEN n ELSE start)
    IN SubSeq(seq, from + 1, n)

\* get_audit_log: the entries of the agent when one is given, then
\* logs[-limit:]
GetAuditLog(agent_id, limit) ==
    LET logs == IF agent_id # None
                THEN SelectSeq(audit_log,
                               LAMBDA log : log.data.agent_id = agent_id)
                ELSE audit_log
    IN SliceFrom(logs, -limit)

\* a call of get_audit_log
GetAuditLogCall(agent_id, limit) ==
    /\ gov_last' = [op |-> "get_audit_log",
                    arg |-> IF agent_id = None THEN "" ELSE agent_id[1],
                    ret |-> "list", limit |-> limit,
                    entries |-> GetAuditLog(agent_id, limit)]
    /\ UNCHANGED <<policies, audit_log, plannerVars, managerVars>>

\* the engine may write another entry
LogOpen == Len(audit_log) < MaxLog

NextGovernance ==
    \/ /\ LogOpen
       /\ \E id \in GovPolicyIds, p \in GovPolicyPool : AddPolicy(id, p)
    \/ /\ LogOpen
       /\ \E id \in GovPolicyIds : RemovePolicy(id)
    \/ /\ LogOpen
       /\ \E a \in GovAgentIds, act \in GovActions : EvaluateAction(a, act)
    \/ \E a \in {None} \cup {Some(x) : x \in GovAgentIds}, l \in 0..MaxLimit :
          GetAuditLogCall(a, l)

SpecGovernance == Init /\ [][NextGovernance]_vars

-----------------------------------------------------------------------------
(* Properties of the search *)

\* the states a returned action sequence goes through
RECURSIVE Replay(_, _)
Replay(seq, state) ==
    IF seq = <<>> THEN state
    ELSE Replay(Tail(seq), ApplyAction(Head(seq), state))

RECURSIVE PlanCost(_)
PlanCost(seq) ==
    IF seq = <<>> THEN 0 ELSE Head(seq).cost + PlanCost(Tail(seq))

Returned(t) == call[t].pc = "searched" /\ call[t].action_sequence # None

\* C1: the effects of a returned plan's actions, applied in plan order to
\* the initial_state given to create_plan, yield a state that contains every
\* fact of goal.conditions.
C1_PlanReachesGoal ==
    \A t \in Threads :
        Returned(t) =>
            call[t].goal.conditions \subseteq
                Replay(call[t].action_sequence[1], call[t].initial_state.facts)

\* a plan of two actions was returned for a goal the initial state misses
C1_Witness ==
    \E t \in Threads :
        /\ Returned(t)
        /\ Len(call[t].action_sequence[1]) = 2
        /\ ~(call[t].goal.conditions \subseteq call[t].initial_state.facts)

DepthLimit(constraints) ==
    IF constraints # None
       /\ \E item \in constraints[1] : item[1] = "max_depth"
    THEN (CHOOSE item \in constraints[1] : item[1] = "max_depth")[2]
    ELSE 10

\* C4: a returned plan has at most constraints.max_depth actions (10 when
\* the caller gives no max_depth).
C4_DepthBound ==
    \A t \in Threads :
        Returned(t) =>
            Len(call[t].action_sequence[1]) <= DepthLimit(call[t].constraints)

\* a returned plan that uses up an explicit max_depth
C4_Witness ==
    \E t \in Threads :
        /\ Returned(t)
        /\ call[t].constraints # None
        /\ Len(call[t].action_sequence[1]) = 2
        /\ DepthLimit(call[t].constraints) = 2


\* C3: two create_plan calls with the same registered actions in the same
\* order, the same goal, initial_state and constraints end with the same
\* action sequence (or both fail) and the same cost.
C3_Deterministic ==
    (SameCall(1, 2) /\ call[1].pc = "searched" /\ call[2].pc = "searched") =>
        /\ call[1].action_sequence = call[2].action_sequence
        /\ call[1].action_sequence # None =>
              PlanCost(call[1].action_sequence[1])
                  = PlanCost(call[2].action_sequence[1])

\* both calls returned a plan whose first action was chosen among several
\* applicable ones, under different plan identifiers
C3_Witness ==
    /\ SameCall(1, 2)
    /\ Returned(1)
    /\ Returned(2)
    /\ call[1].plan_id # call[2].plan_id
    /\ call[1].action_sequence[1] # <<>>
    /\ Len(GetApplicableActions(call[1].initial_state.facts)) > 1

\* the state after the first n actions of a call's path
StateAfter(c, n) == Replay(SubSeq(c.plan, 1, n), c.initial_state.facts)

\* the path of a call came back to a state it had already reached
Revisits(c) ==
    \E j, k \in 0..Len(c.plan) : j < k /\ StateAfter(c, j) = StateAfter(c, k)

\* C5: a search makes at most max_depth expansions, also when its actions
\* lead back to a state already reached, and every search that has started
\* ends with a result (a plan, or None for the failure) that create_plan
\* returns.
C5_SearchTerminates ==
    /\ [](\A t \in Threads :
            call[t].pc \in {"loop", "after_loop", "searched"} =>
                /\ call[t].i <= call[t].max_depth
                /\ Len(call[t].plan) = call[t].i)
    /\ \A t \in Threads :
            (call[t].pc = "loop") ~>
                (call[t].pc = "idle" /\ last.op = "create_plan")

\* a search on a cycle that used up the default max_depth and failed
C5_Witness ==
    \E t \in Threads :
        /\ call[t].pc = "searched"
        /\ call[t].action_sequence = None
        /\ call[t].i = DefaultMaxDepth
        /\ Revisits(call[t])
        /\ \E n \in 1..Len(call[t].plan) :
              StateAfter(call[t], n) # call[t].initial_state.facts

-----------------------------------------------------------------------------
(* Properties of the plan store and the registry *)

\* C6: execute_plan succeeds only for a stored plan whose status is PENDING,
\* which it moves to IN_PROGRESS; for any other plan_id it returns a
\* failure and leaves every stored plan record unchanged.
C6_ExecuteOnlyPending ==
    [][\A p \in PlanIds :
          ExecutePlan(p) =>
              IF p \in DOMAIN plans /\ plans[p].status = PENDING
              THEN last'.ret = "True" /\ plans'[p].status = IN_PROGRESS
              ELSE last'.ret # "True" /\ plans' = plans]_vars

Terminal(status) == status \in {COMPLETED, FAILED}

\* C7: once a plan's status is COMPLETED or FAILED, no step moves it to any
\* other status.
C7_TerminalIsFinal ==
    [][\A p \in DOMAIN plans :
          Terminal(plans[p].status) =>
              p \in DOMAIN plans' /\ plans'[p].status = plans[p].status]_vars

\* effects that both add and remove one fact
ConflictingEffects(action) ==
    \E j, k \in DOMAIN action.effects :
        /\ StartsWithNOT(action.effects[k])
        /\ action.effects[j] = StripNOT(action.effects[k])

InvalidActionDefinition(action) ==
    ConflictingEffects(action) \/ action.cost < 0

\* C8: register_action rejects an action with conflicting effects or a
\* negative cost: it does not return success and the registry stays as it
\* was.
C8_RegisterValidates ==
    [][\A id \in ActionIds, a \in ActionPool :
          (RegisterAction(id, a) /\ InvalidActionDefinition(a)) =>
              last'.ret # "True" /\ actions' = actions]_vars

\* C10: a successful create_plan returns an identifier under which no plan
\* is stored yet, so that it adds one record and overwrites none.
C10_FreshIdentifier ==
    [][\A t \in Threads :
          (CreatePlanEnd(t) /\ call[t].action_sequence # None) =>
              /\ call[t].plan_id \notin DOMAIN plans
              /\ Cardinality(DOMAIN plans') = Cardinality(DOMAIN plans) + 1]_vars

\* C9: the goal and initial_state of a stored plan are copies of their own:
\* what get_plan reads back for a plan never changes while the record holds
\* the same objects.
C9_SnapshotIndependent ==
    [][\A p \in PlanIds :
          (/\ GetPlan(p) # None
           /\ GetPlan(p)' # None
           /\ GetPlan(p)'[1].goal.ref = GetPlan(p)[1].goal.ref) =>
              /\ GetPlan(p)'[1].goal = GetPlan(p)[1].goal
              /\ GetPlan(p)'[1].initial_state = GetPlan(p)[1].initial_state]_vars

-----------------------------------------------------------------------------
(* Selection policy and outcomes of the search *)

\* a registered action that reaches the goal in one step from the initial
\* state of the call
OneStepPlan(c, a) ==
    /\ \E j \in DOMAIN c.registry : c.registry[j].action = a
    /\ a.preconditions \subseteq c.initial_state.facts
    /\ c.goal.conditions \subseteq ApplyAction(a, c.initial_state.facts)

\* C11: under the LOWEST_COST policy the returned plan costs no more than
\* any registered action that reaches the goal in one step: of two such
\* actions of cost 5 and 1 the plan uses the one of cost 1, whatever the
\* registration order.
C11_LowestCost ==
    \A t \in Threads :
        (Returned(t) /\ call[t].constraints = LowestCost) =>
            \A j \in DOMAIN call[t].registry :
                OneStepPlan(call[t], call[t].registry[j].action) =>
                    PlanCost(call[t].action_sequence[1])
                        <= call[t].registry[j].action.cost

\* why a search failed, as the spec names it: no action was applicable, or
\* max_depth steps were taken
FailureKind(c) ==
    IF c.i < c.max_depth THEN "NoPlanFound" ELSE "Exhausted"

\* C12: a failed create_plan reports NoPlanFound when the search stopped for
\* want of an applicable action and Exhausted when it used up max_depth, so
\* that the caller can tell them apart.
C12_DistinctFailures ==
    [][\A t \in Threads :
          (/\ call[t].pc = "searched"
           /\ call[t].action_sequence = None
           /\ call'[t].pc = "idle") =>
              last'.ret = FailureKind(call[t])]_vars

-----------------------------------------------------------------------------
(* The plan store after create_plan *)

\* a create_plan call of thread t returns in this step, with a plan / with
\* no plan
ReturnsPlan(t) ==
    call[t].pc = "searched" /\ call[t].action_sequence # None
        /\ call'[t].pc = "idle"

ReturnsFailure(t) ==
    call[t].pc = "searched" /\ call[t].action_sequence = None
        /\ call'[t].pc = "idle"

\* C13: when create_plan returns identifier p, get_plan(p) is a record with
\* status PENDING, current_step 0, the action sequence the search found and
\* the total cost of that sequence, and get_plan_status(p) is PENDING.
C13_StoredRecord ==
    [][\A t \in Threads, p \in PlanIds :
          (ReturnsPlan(t) /\ call[t].plan_id = p) =>
              /\ last'.ret = p
              /\ (GetPlan(p))' # None
              /\ (GetPlanStatus(p))' = Some(PENDING)
              /\ LET rec == (GetPlan(p))'[1] IN
                    /\ rec.status = PENDING
                    /\ rec.current_step = 0
                    /\ rec.actions = call[t].action_sequence[1]
                    /\ "total_cost" \in DOMAIN rec
                    /\ rec.total_cost = PlanCost(rec.actions)]_vars

\* C14: when the search fails, create_plan returns the failure and the
\* store holds the same plans with the same records as before the call.
C14_FailureStoresNothing ==
    [][\A t \in Threads :
          ReturnsFailure(t) => (plans' = plans /\ last'.ret = "None")]_vars

\* a failed call made after a plan had been stored
C14_Witness ==
    /\ last.op = "create_plan"
    /\ last.ret = "None"
    /\ DOMAIN plans # {}

-----------------------------------------------------------------------------
(* Registry, applicability and effects *)

\* C15: every action of a returned plan is a definition that was in the
\* registry when the search ran.
C15_PlanActionsRegistered ==
    \A t \in Threads :
        Returned(t) =>
            \A j \in DOMAIN call[t].action_sequence[1] :
                \E k \in DOMAIN call[t].registry :
                    call[t].registry[k].action = call[t].action_sequence[1][j]

\* a plan of two actions returned from a registry of two
C15_Witness ==
    \E t \in Threads :
        /\ Returned(t)
        /\ Len(call[t].action_sequence[1]) = 2
        /\ Len(call[t].registry) = 2
        /\ call[t].action_sequence[1][1] # call[t].action_sequence[1][2]

\* the registered actions whose preconditions are all facts of the state, in
\* registration order
RegisteredAndEnabled(state) ==
    LET sel == SelectSeq(actions,
                         LAMBDA e : e.action.preconditions \subseteq state)
    IN [j \in DOMAIN sel |-> sel[j].action]

\* C18: in every state the applicable actions are exactly the registered
\* actions all of whose preconditions are facts of the state (those without
\* preconditions always), listed in registration order.
C18_ApplicableExact ==
    \A state \in SUBSET Facts :
        GetApplicableActions(state) = RegisteredAndEnabled(state)

\* a search at a state where, of two registered actions, the first is not
\* applicable and the second, which has no preconditions, is
C18_Witness ==
    \E t \in Threads :
        /\ call[t].pc = "loop"
        /\ Len(actions) = 2
        /\ actions[2].action.preconditions = {}
        /\ ~(actions[1].action.preconditions \subseteq call[t].current_state)
        /\ GetApplicableActions(call[t].current_state) = <<actions[2].action>>

\* the facts after the effects: a fact named by some effect is present
\* exactly if the last effect naming it adds it, any other fact exactly if
\* it was present
EffectsInOrder(effects, state) ==
    {f \in Facts :
        LET idx == {j \in DOMAIN effects : effects[j] \in {f, Neg[f]}} IN
        IF idx = {} THEN f \in state
        ELSE effects[CHOOSE j \in idx : \A k \in idx : k <= j] = f}

\* C19: a search step that applies an action goes to the state given by the
\* action's effects taken in list order, a later effect overriding an
\* earlier one on the same fact, and the call of _apply_action leaves the
\* set it was given, and the caller's initial state, as they were.
C19_ApplyInOrder ==
    [][\A t \in Threads :
          (call[t].pc = "loop" /\ call'[t].pc = "loop") =>
              LET a == call'[t].plan[Len(call'[t].plan)]
                  r == ApplyActionCall(a, call[t].current_state)
              IN /\ call'[t].current_state
                      = EffectsInOrder(a.effects, call[t].current_state)
                 /\ r.new_state = call'[t].current_state
                 /\ r.state = call[t].current_state
                 /\ call'[t].initial_state = call[t].initial_state]_vars

\* pickup, which adds one fact and removes another, then fumble, whose
\* second effect overrides its first, were applied
C19_Witness ==
    \E t \in Threads :
        /\ call[t].pc = "loop"
        /\ call[t].plan = <<pickup, fumble>>
        /\ call[t].initial_state.facts = {"hand_empty", "block_on_table"}
        /\ call[t].current_state = {"block_on_table"}

\* C20: register_action on an identifier already present replaces its
\* definition and leaves every identifier at its position; on a new
\* identifier it adds the definition after all existing ones; the
\* applicable actions are then listed in that order.
C20_RegistrationOrder ==
    [][\A id \in ActionIds, a \in ActionPool :
          RegisterAction(id, a) =>
              /\ IF id \in Keys(actions)
                 THEN /\ Len(actions') = Len(actions)
                      /\ \A j \in DOMAIN actions :
                            /\ actions'[j].id = actions[j].id
                            /\ actions'[j].action =
                                 IF actions[j].id = id THEN a
                                 ELSE actions[j].action
                 ELSE /\ Len(actions') = Len(actions) + 1
                      /\ \A j \in DOMAIN actions : actions'[j] = actions[j]
                      /\ actions'[Len(actions')] = [id |-> id, action |-> a]
              /\ (GetApplicableActions(Facts))'
                    = [j \in DOMAIN actions' |-> actions'[j].action]]_vars

\* the first of two identifiers was registered again with another
\* definition and kept the first place
C20_Witness ==
    /\ last.op = "register_action"
    /\ nops = 3
    /\ Len(actions) = 2
    /\ last.arg = actions[1].id
    /\ actions[1].action # actions[2].action

-----------------------------------------------------------------------------
(* The path of a search and its view of the registry *)

\* C16: the states along the path of a search are pairwise different: the
\* search never comes to a state it has already visited.
C16_NoStateTwice ==
    \A t \in Threads : call[t].pc # "idle" => ~Revisits(call[t])

\* C17: all steps of one search read the same registry: a registration made
\* while the search runs is seen by every step that consults the registry
\* or by none.
C17_ConsistentView ==
    \A t \in Threads :
        call[t].pc # "idle" => Cardinality(call[t].consulted) <= 1

-----------------------------------------------------------------------------
(* Frame of the operations on the plan store *)

\* C21: in every step, each stored plan stays stored with the same goal,
\* initial_state and action sequence, whatever register_action, create_plan
\* or execute_plan call the step is; an execute_plan step changes nothing
\* but the status of the plan it names.
C21_PlanImmutable ==
    [][\A p \in DOMAIN plans :
          /\ p \in DOMAIN plans'
          /\ plans'[p].goal = plans[p].goal
          /\ plans'[p].initial_state = plans[p].initial_state
          /\ plans'[p].actions = plans[p].actions
          /\ (nops' # nops /\ last'.op = "execute_plan") =>
                /\ plans'[p].current_step = plans[p].current_step
                /\ (last'.arg # p => plans'[p] = plans[p])]_vars

-----------------------------------------------------------------------------
(* Scenarios *)

\* scenario A of the spec: pickup is the only registered action, the
\* initial state is {hand_empty, block_on_table}, the goal {holding_block}
ScenarioA(c) ==
    /\ Len(c.registry) = 1
    /\ c.registry[1].action = pickup
    /\ c.initial_state.facts = {"hand_empty", "block_on_table"}
    /\ c.goal.conditions = {"holding_block"}
    /\ c.max_depth >= 1

\* C22: in scenario A create_plan returns a plan whose action sequence is
\* exactly [pickup] and whose total_cost is the cost of pickup.
C22_ScenarioA ==
    [][\A t \in Threads, p \in PlanIds :
          (/\ call[t].pc = "searched"
           /\ call'[t].pc = "idle"
           /\ call[t].plan_id = p
           /\ ScenarioA(call[t])) =>
              /\ last'.ret = p
              /\ (GetPlan(p))' # None
              /\ LET rec == (GetPlan(p))'[1] IN
                    /\ rec.actions = <<pickup>>
                    /\ "total_cost" \in DOMAIN rec
                    /\ rec.total_cost = pickup.cost]_vars

\* scenario B of the spec and its general form: the goal does not hold in
\* the initial state and no registered action (none at all in an empty
\* registry) is applicable there
NothingApplicableAtStart(c) ==
    /\ ~(c.goal.conditions \subseteq c.initial_state.facts)
    /\ Applicable(Values(c.registry), c.initial_state.facts) = <<>>
    /\ c.max_depth >= 1

\* C23: when no registered action is applicable in the initial state and
\* the goal does not hold there, create_plan returns, as its result, the
\* NoPlanFound failure.
C23_NoPlanFoundResult ==
    [][\A t \in Threads :
          (/\ call[t].pc = "searched"
           /\ call'[t].pc = "idle"
           /\ NothingApplicableAtStart(call[t])) =>
              /\ call[t].action_sequence = None
              /\ last'.op = "create_plan"
              /\ last'.ret = "NoPlanFound"]_vars

-----------------------------------------------------------------------------
(* The greedy path *)

\* the first registered action whose preconditions hold in the state
FirstEnabled(registry, state) ==
    registry[CHOOSE j \in DOMAIN registry :
               /\ registry[j].action.preconditions \subseteq state
               /\ \A k \in 1..(j - 1) :
                     ~(registry[k].action.preconditions \subseteq state)].action

\* C27: the search follows one path and never goes back on it: a step that
\* chooses an action appends to the path the first registered action that
\* is applicable, and the result is failure exactly when the state at the
\* end of this one path misses the goal, whatever other plans exist.
C27_GreedyNoBacktracking ==
    /\ [][\A t \in Threads :
            (call[t].pc = "loop" /\ call'[t].pc # "idle") =>
                \/ call'[t].plan = call[t].plan
                \/ call'[t].plan =
                      Append(call[t].plan,
                             FirstEnabled(call[t].registry,
                                          call[t].current_state))]_vars
    /\ [](\A t \in Threads :
            call[t].pc = "searched" =>
                /\ call[t].action_sequence = None
                     <=> ~(call[t].goal.conditions
                             \subseteq StateAfter(call[t], Len(call[t].plan)))
                /\ call[t].action_sequence # None =>
                     call[t].action_sequence[1] = call[t].plan)

\* a search failed at a dead end reached after the first step although
\* another action, registered second, reaches the goal in one step
C27_Witness ==
    \E t \in Threads :
        /\ call[t].pc = "searched"
        /\ call[t].action_sequence = None
        /\ Len(call[t].plan) = 1
        /\ call[t].i < call[t].max_depth
        /\ Len(call[t].registry) = 2
        /\ OneStepPlan(call[t], call[t].registry[2].action)

\* C28: in a returned plan the preconditions of the k-th action are all
\* facts of the state that the first k-1 actions make of the initial
\* state.
C28_ActionsApplicableInOrder ==
    \A t \in Threads :
        Returned(t) =>
            \A k \in DOMAIN call[t].action_sequence[1] :
                call[t].action_sequence[1][k].preconditions
                    \subseteq StateAfter(call[t], k - 1)

\* a returned plan whose second action was not applicable in the initial
\* state
C28_Witness ==
    \E t \in Threads :
        /\ Returned(t)
        /\ Len(call[t].action_sequence[1]) = 2
        /\ ~(call[t].action_sequence[1][2].preconditions
               \subseteq call[t].initial_state.facts)

-----------------------------------------------------------------------------
(* The agent manager *)

\* C24: at most max_agents agents are under management in every state, and
\* every create_agent called with max_agents agents under management raises
\* RuntimeError and leaves the managed agents as they are, while every
\* other create_agent returns an agent.
C24_AtMostMaxAgents ==
    /\ [](Cardinality(DOMAIN agents) <= max_agents)
    /\ [][CreateAgent =>
            IF Cardinality(DOMAIN agents) >= max_agents
            THEN agent_last'.ret = "RuntimeError" /\ agents' = agents
            ELSE /\ agent_last'.ret \in DOMAIN agents'
                 /\ DOMAIN agents \subseteq DOMAIN agents']_vars

\* a full manager refused a create_agent after an agent had been removed
\* and another created
C24_Witness ==
    /\ agent_last.op = "create_agent"
    /\ agent_last.ret = "RuntimeError"
    /\ max_agents = MaxAgentsArg
    /\ Cardinality(DOMAIN agents) = max_agents
    /\ \E id \in DOMAIN agents : agents[id].status = PAUSED

-----------------------------------------------------------------------------
(* The governance audit log *)

\* the log after the step is the log before it and one more entry
AppendsOne(event_type) ==
    /\ Len(audit_log') = Len(audit_log) + 1
    /\ SubSeq(audit_log', 1, Len(audit_log)) = audit_log
    /\ audit_log'[Len(audit_log')].event_type = event_type

\* C25: every evaluate_action call appends exactly one "action_evaluated"
\* entry that carries the decision the call returned; every add_policy and
\* every successful remove_policy append exactly one entry; and in every
\* step the entries already in the log stay, in place and unchanged.
C25_AuditAppendOnly ==
    [][/\ Len(audit_log') >= Len(audit_log)
       /\ SubSeq(audit_log', 1, Len(audit_log)) = audit_log
       /\ \A a \in GovAgentIds, act \in GovActions :
             EvaluateAction(a, act) =>
                 /\ AppendsOne("action_evaluated")
                 /\ audit_log'[Len(audit_log')].data.decision
                      = Some(gov_last'.ret)
                 /\ gov_last'.ret \in PolicyDecision
       /\ \A id \in GovPolicyIds, p \in GovPolicyPool :
             AddPolicy(id, p) => AppendsOne("policy_added")
       /\ \A id \in GovPolicyIds :
             (RemovePolicy(id) /\ gov_last'.ret = "True") =>
                 AppendsOne("policy_removed")]_vars

\* the entries that match the agent filter of get_audit_log
Matching(agent_id) ==
    IF agent_id = None THEN audit_log
    ELSE SelectSeq(audit_log, LAMBDA e : e.data.agent_id = agent_id)

\* the last k entries of a sequence, k between 0 and its length
LastOf(seq, k) == [j \in 1..k |-> seq[Len(seq) - k + j]]

\* C26: get_audit_log(agent_id, limit) returns, for every limit >= 0, the
\* last min(limit, n) of the n entries that match the agent filter, in log
\* order, and so never more than limit entries.
C26_AtMostLimit ==
    [][\A a \in {None} \cup {Some(x) : x \in GovAgentIds},
         l \in 0..MaxLimit :
          GetAuditLogCall(a, l) =>
              LET n == Len(Matching(a))
                  k == IF l < n THEN l ELSE n
              IN /\ Len(gov_last'.entries) <= l
                 /\ gov_last'.entries = LastOf(Matching(a), k)]_vars

-----------------------------------------------------------------------------
(* Agent lifecycle *)

\* the status an agent has after a call of op made in status pre
AfterCall(op, pre) ==
    CASE op = "start" -> IF pre = RUNNING THEN pre ELSE RUNNING
      [] op = "stop" -> IF pre = STOPPED THEN pre ELSE STOPPED
      [] op = "pause" -> IF pre = RUNNING THEN PAUSED ELSE pre
      [] op = "resume" -> IF pre = PAUSED THEN RUNNING ELSE pre

\* the calls that succeed in each status
Succeeds(op, pre) ==
    CASE op = "start" -> pre # RUNNING
      [] op = "stop" -> pre # STOPPED
      [] op = "pause" -> pre = RUNNING
      [] op = "resume" -> pre = PAUSED

\* the step is a call of start, stop, pause or resume on agent id
LifecycleStep(id) ==
    \/ AgentStart(id) \/ AgentStop(id) \/ AgentPause(id) \/ AgentResume(id)

\* C29: pause succeeds exactly when the agent is RUNNING and leaves it
\* PAUSED, resume exactly when it is PAUSED and leaves it RUNNING; start
\* fails exactly when it is RUNNING, stop exactly when it is STOPPED; a call
\* that returns False leaves the status; no agent is ever in ERROR, and
\* none is IDLE after a call.
C29_LifecycleGuards ==
    /\ [][\A id \in AgentIds :
            LifecycleStep(id) =>
                LET op == agent_last'.op
                    pre == agents[id].status
                IN /\ agent_last'.ret
                        = IF Succeeds(op, pre) THEN "True" ELSE "False"
                   /\ agents'[id].status = AfterCall(op, pre)
                   /\ agent_last'.ret = "False" =>
                        agents'[id].status = pre
                   /\ agents'[id].status # ERROR
                   /\ agents'[id].status = IDLE =>
                        (pre = IDLE /\ agent_last'.ret = "False")]_vars
    /\ [](\A id \in DOMAIN agents : agents[id].status # ERROR)

\* a stopped agent was started again, beside an agent that is paused
C29_Witness ==
    /\ agent_last.op = "start"
    /\ agent_last.ret = "True"
    /\ agent_last.pre = STOPPED
    /\ \E id, other \in DOMAIN agents :
          /\ agent_last.arg = id
          /\ agents[id].status = RUNNING
          /\ agents[other].status = PAUSED

=============================================================================
